---- MODULE Spec2Model ----
(***************************************************************************)
(* cdecl's LLDB pretty printers (src/cdecl_lldb.py): null, show_c_scope_t  *)
(* and show_c_sname_t, run against a halted debuggee whose memory holds a  *)
(* c_sname_t (an slist with a head pointer) and its slist_node_t nodes.    *)
(*                                                                         *)
(* A Python string is a sequence of one-character strings.  An SBValue is  *)
(* a record [ty, valid, val]: its static type, what IsValid() answers and  *)
(* the address it designates (what GetValueAsUnsigned() answers when the   *)
(* value can be read; 0 is NULL).                                          *)
(***************************************************************************)
EXTENDS Integers, Sequences, FiniteSets, TLC

\* Longest chain of slist nodes in the debuggee (Spec).
MaxNodes == 3
\* Longest chain in the specification that remembers an earlier call (SpecIdem).
MaxIdemNodes == 2
\* Most nodes one traversal may yield; only a cyclic chain gets this far.
MaxVisits == 4

Quote == "\""
Colon == ":"

\* The C strings a c_scope_data_t.name may point to: identifiers, or "".
Names == {<<>>, <<"S">>, <<"T">>}
\* Marks a char* whose target the debugger cannot read.
Unreadable == <<"<unreadable>">>
\* Python's None, as SBValue.GetSummary() gives it when there is no summary.
None == <<"None">>
\* The result of a call that ended in an uncaught AttributeError.
AttributeError == <<"AttributeError">>

VARIABLES
    head,           \* debuggee: c_sname_t.head
    next,           \* debuggee: node i's next pointer
    data,           \* debuggee: node i's data pointer (void*)
    name,           \* debuggee: the name pointer of node i's c_scope_data_t
    text,           \* debuggee: the C string node i's name points to
    pc,             \* where the running printer is
    fn,             \* the printer called last
    arg,            \* its argument (c_scope or c_sname)
    colon2,         \* show_c_sname_t's local
    rv,             \* both printers' local
    item,           \* linked_list_iter's cursor
    slist_node_ptr, \* the for loop's variable
    void_data_ptr,  \* both printers' local
    name_ptr,       \* both printers' local
    result,         \* what the call gave the host; empty while it runs
    visited,        \* history: the nodes the iterator yielded in this call
    derefs,         \* history: the values this call read a field or summary of
    passed,         \* history: the values an absent test answered False for
    nullLog,        \* history: the last call of null, [ptr, ret]
    emitted,        \* history: the names appended to rv in this call
    first,          \* history: the first finished call, [fn, arg, out]
    between         \* history: a call on another value finished since

mem == <<head, next, data, name, text>>
locals == <<colon2, rv, item, slist_node_ptr, void_data_ptr, name_ptr>>
history == <<visited, derefs, passed, nullLog, emitted, first, between>>
vars == <<head, next, data, name, text, pc, fn, arg, colon2, rv, item,
          slist_node_ptr, void_data_ptr, name_ptr, result, visited, derefs,
          passed, nullLog, emitted, first, between>>

----------------------------------------------------------------------------
(* The debuggee's memory as the host shows it.                             *)

NodeAddr(i) == i
DataAddr(i) == MaxNodes + 1 + i
NameAddr(i) == 2 * (MaxNodes + 1) + i

Value(ty, valid, val) == [ty |-> ty, valid |-> valid, val |-> val]
InvalidValue(ty) == Value(ty, FALSE, 0)
NullPtr(ty) == Value(ty, TRUE, 0)

NodePtrT == "slist_node_t *"
VoidPtrT == "void *"
DataPtrT == "c_scope_data_t *"
CharPtrT == "char *"
SnameT == "c_sname_t"
ScopeT == "c_scope_t"

Nodes == 1..Len(next)

\* SBValue.IsValid()
IsValid(v) == v.valid

\* SBValue.GetValueAsUnsigned(): the fail value 0 for a value that is not valid.
GetValueAsUnsigned(v) == IF v.valid THEN v.val ELSE 0

\* SBValue.GetChildMemberWithName(): a value that is not valid, or designates
\* no record of the debuggee, has no children and gives a value that is not valid.
GetChildMemberWithName(v, field) ==
    IF ~v.valid THEN InvalidValue(VoidPtrT)
    ELSE IF field = "head" /\ v.ty = SnameT THEN head
    ELSE IF field = "next" /\ v.ty \in {NodePtrT, ScopeT} /\ v.val \in Nodes
        THEN next[v.val]
    ELSE IF field = "data" /\ v.ty \in {NodePtrT, ScopeT} /\ v.val \in Nodes
        THEN data[v.val]
    ELSE IF field = "name" /\ v.ty = DataPtrT
             /\ \E i \in Nodes : v.val = DataAddr(i)
        THEN name[CHOOSE i \in Nodes : v.val = DataAddr(i)]
    ELSE InvalidValue(VoidPtrT)

\* SBValue.Cast(): the same pointer, seen as another type.
Cast(v, ty) == Value(ty, v.valid, v.val)

\* SBValue.GetSummary() of a char*: the C string between double quotes, or
\* None when the host has no summary for the value.
GetSummary(v) ==
    IF v.valid /\ v.ty = CharPtrT /\ \E i \in Nodes : v.val = NameAddr(i)
    THEN LET i == CHOOSE j \in Nodes : v.val = NameAddr(j)
         IN  IF text[i] = Unreadable THEN None
             ELSE <<Quote>> \o text[i] \o <<Quote>>
    ELSE None

----------------------------------------------------------------------------
(* The printers' pure parts.                                               *)

NullAnd(ptr) == ~IsValid(ptr) /\ GetValueAsUnsigned(ptr) = 0

\* def null(ptr)
null(ptr) == ~IsValid(ptr) \/ GetValueAsUnsigned(ptr) = 0

\* lldb's default end-of-list test of SBValue.linked_list_iter.
eol_test(val) == ~IsValid(val) \/ GetValueAsUnsigned(val) = 0

RECURSIVE lstrip(_)
lstrip(s) == IF s # <<>> /\ Head(s) = Quote THEN lstrip(Tail(s)) ELSE s

RECURSIVE rstrip(_)
rstrip(s) ==
    IF s # <<>> /\ s[Len(s)] = Quote THEN rstrip(SubSeq(s, 1, Len(s) - 1)) ELSE s

StripLeadingOnly(s) == lstrip(s)

\* str.strip('"'): every leading and every trailing double quote goes.
strip(s) == rstrip(lstrip(s))

RECURSIVE scan(_, _, _)
\* show_c_sname_t as a function of the records the iterator yields, in order:
\* each is [data, name, summary].
scan(cells, c2, acc) ==
    IF cells = <<>> THEN <<Quote>> \o acc \o <<Quote>>
    ELSE LET c == Head(cells)
         IN  IF null(c.data) \/ null(c.name) THEN scan(Tail(cells), c2, acc)
             ELSE IF c.summary = None THEN AttributeError
             ELSE scan(Tail(cells), TRUE,
                       acc \o (IF c2 THEN <<Colon, Colon>> ELSE <<>>)
                           \o strip(c.summary))

show_c_sname_t(cells) == scan(cells, FALSE, <<>>)

----------------------------------------------------------------------------
(* The states the debuggee can be halted in.                               *)

\* A chain of n nodes, node i at NodeAddr(i); the last node's next is NULL,
\* not valid, or (a corrupted list) points back into the chain.
Chains(maxn) ==
    { m \in [n : 0..maxn, tail : {InvalidValue(NodePtrT), NullPtr(NodePtrT)}
                                   \cup {Value(NodePtrT, TRUE, NodeAddr(j)) : j \in 1..maxn}] :
        m.tail.val <= m.n }

\* What a node's data, name and string can be: a name pointer exists only
\* behind a data pointer, a string only behind a name pointer.
Cells(i) ==
    { [data |-> InvalidValue(VoidPtrT), name |-> NullPtr(CharPtrT), text |-> <<>>],
      [data |-> NullPtr(VoidPtrT), name |-> NullPtr(CharPtrT), text |-> <<>>],
      [data |-> Value(VoidPtrT, TRUE, DataAddr(i)),
       name |-> InvalidValue(CharPtrT), text |-> <<>>],
      [data |-> Value(VoidPtrT, TRUE, DataAddr(i)),
       name |-> NullPtr(CharPtrT), text |-> <<>>] }
    \cup
    { [data |-> Value(VoidPtrT, TRUE, DataAddr(i)),
       name |-> Value(CharPtrT, TRUE, NameAddr(i)), text |-> t] :
        t \in Names \cup {Unreadable} }

NoValue == InvalidValue(VoidPtrT)
NoLog == [ptr |-> NoValue, ret |-> TRUE, called |-> FALSE]
NoCall == [fn |-> "none", arg |-> NoValue, out |-> <<>>]
Untracked == [fn |-> "untracked", arg |-> NoValue, out |-> <<>>]

InitMem(maxn) ==
    \E m \in Chains(maxn) :
        /\ head = IF m.n = 0 THEN m.tail ELSE Value(NodePtrT, TRUE, NodeAddr(1))
        /\ next = [i \in 1..m.n |->
                     IF i < m.n THEN Value(NodePtrT, TRUE, NodeAddr(i + 1)) ELSE m.tail]
        /\ \E cs \in [1..m.n -> UNION {Cells(i) : i \in 1..maxn}] :
              /\ \A i \in 1..m.n : cs[i] \in Cells(i)
              /\ data = [i \in 1..m.n |-> cs[i].data]
              /\ name = [i \in 1..m.n |-> cs[i].name]
              /\ text = [i \in 1..m.n |-> cs[i].text]

InitRest ==
    /\ pc = "idle"
    /\ fn = "none"
    /\ arg = NoValue
    /\ colon2 = FALSE
    /\ rv = <<>>
    /\ item = NoValue
    /\ slist_node_ptr = NoValue
    /\ void_data_ptr = NoValue
    /\ name_ptr = NoValue
    /\ result = <<>>
    /\ visited = <<>>
    /\ derefs = {}
    /\ passed = {}
    /\ nullLog = NoLog
    /\ emitted = <<>>
    /\ between = FALSE

Init == InitMem(MaxNodes) /\ InitRest /\ first = Untracked

InitIdem == InitMem(MaxIdemNodes) /\ InitRest /\ first = NoCall

----------------------------------------------------------------------------
(* The host and the printers, one action per block of the source.         *)

Ref(v) == [valid |-> v.valid, val |-> v.val]

\* The values the host hands show_c_sname_t: a c_sname_t, or no value.
SnameArgs == {Value(SnameT, TRUE, 0), InvalidValue(SnameT)}

\* The values the host hands show_c_scope_t: a node of the chain, or no value.
ScopeArgs == {InvalidValue(ScopeT)} \cup {Value(ScopeT, TRUE, NodeAddr(i)) : i \in Nodes}

AtRest == pc \in {"idle", "returned", "raised"}

\* The host takes the call's outcome; the histories of SpecIdem note it.
Finish(out) ==
    /\ result' = out
    /\ first' = IF first = NoCall THEN [fn |-> fn, arg |-> arg, out |-> out] ELSE first
    /\ between' = (between \/ (first \notin {NoCall, Untracked}
                                /\ (first.fn # fn \/ first.arg # arg)))

Call_sname_StaleFlag(c_sname) ==
    /\ AtRest
    /\ fn' = "show_c_sname_t"
    /\ arg' = c_sname
    /\ rv' = <<>>
    /\ item' = GetChildMemberWithName(c_sname, "head")
    /\ derefs' = {c_sname}
    /\ passed' = {}
    /\ visited' = <<>>
    /\ emitted' = <<>>
    /\ nullLog' = NoLog
    /\ slist_node_ptr' = NoValue
    /\ void_data_ptr' = NoValue
    /\ name_ptr' = NoValue
    /\ pc' = "for"
    /\ result' = <<>>
    /\ UNCHANGED <<mem, colon2, first, between>>

\* show_c_sname_t, lines 52-59: the locals, and head for the iterator.
Call_sname(c_sname) ==
    /\ AtRest
    /\ fn' = "show_c_sname_t"
    /\ arg' = c_sname
    /\ colon2' = FALSE
    /\ rv' = <<>>
    /\ item' = GetChildMemberWithName(c_sname, "head")
    /\ derefs' = {c_sname}
    /\ passed' = {}
    /\ visited' = <<>>
    /\ emitted' = <<>>
    /\ nullLog' = NoLog
    /\ slist_node_ptr' = NoValue
    /\ void_data_ptr' = NoValue
    /\ name_ptr' = NoValue
    /\ pc' = "for"
    /\ result' = <<>>
    /\ UNCHANGED <<mem, first, between>>

\* Line 60, linked_list_iter's test: yield the cursor, or end the loop.
Sname_for ==
    /\ pc = "for"
    /\ eol_test(item) \/ Len(visited) < MaxVisits
    /\ IF eol_test(item)
       THEN /\ pc' = "return"
            /\ UNCHANGED <<slist_node_ptr, visited, passed>>
       ELSE /\ pc' = "data"
            /\ slist_node_ptr' = item
            /\ visited' = Append(visited, item.val)
            /\ passed' = passed \cup {Ref(item)}
    /\ UNCHANGED <<mem, fn, arg, colon2, rv, item, void_data_ptr, name_ptr,
                   result, derefs, nullLog, emitted, first, between>>

Sname_data_FlagOnAbsent ==
    /\ pc = "data"
    /\ LET v == GetChildMemberWithName(slist_node_ptr, "data")
       IN  /\ void_data_ptr' = v
           /\ derefs' = derefs \cup {slist_node_ptr}
           /\ nullLog' = [ptr |-> v, ret |-> null(v), called |-> TRUE]
           /\ IF null(v)
              THEN pc' = "next" /\ colon2' = TRUE /\ UNCHANGED passed
              ELSE pc' = "name" /\ passed' = passed \cup {Ref(v)} /\ UNCHANGED colon2
    /\ UNCHANGED <<mem, fn, arg, rv, item, slist_node_ptr, name_ptr,
                   result, visited, emitted, first, between>>

\* Lines 61-62: the node's data, and the test of it.
Sname_data ==
    /\ pc = "data"
    /\ LET v == GetChildMemberWithName(slist_node_ptr, "data")
       IN  /\ void_data_ptr' = v
           /\ derefs' = derefs \cup {slist_node_ptr}
           /\ nullLog' = [ptr |-> v, ret |-> null(v), called |-> TRUE]
           /\ IF null(v)
              THEN pc' = "next" /\ UNCHANGED passed
              ELSE pc' = "name" /\ passed' = passed \cup {Ref(v)}
    /\ UNCHANGED <<mem, fn, arg, colon2, rv, item, slist_node_ptr, name_ptr,
                   result, visited, emitted, first, between>>

Sname_name_NoTest ==
    /\ pc = "name"
    /\ LET c_scope_data_ptr == Cast(void_data_ptr, DataPtrT)
           v == GetChildMemberWithName(c_scope_data_ptr, "name")
       IN  /\ name_ptr' = v
           /\ derefs' = derefs \cup {c_scope_data_ptr}
           /\ pc' = "colon2"
    /\ UNCHANGED <<mem, fn, arg, colon2, rv, item, slist_node_ptr, void_data_ptr,
                   result, visited, passed, nullLog, emitted, first, between>>

\* Lines 63-65: the record's name, and the test of it.
Sname_name ==
    /\ pc = "name"
    /\ LET c_scope_data_ptr == Cast(void_data_ptr, DataPtrT)
           v == GetChildMemberWithName(c_scope_data_ptr, "name")
       IN  /\ name_ptr' = v
           /\ derefs' = derefs \cup {c_scope_data_ptr}
           /\ nullLog' = [ptr |-> v, ret |-> null(v), called |-> TRUE]
           /\ IF null(v)
              THEN pc' = "next" /\ UNCHANGED passed
              ELSE pc' = "colon2" /\ passed' = passed \cup {Ref(v)}
    /\ UNCHANGED <<mem, fn, arg, colon2, rv, item, slist_node_ptr, void_data_ptr,
                   result, visited, emitted, first, between>>

Sname_colon2_Always ==
    /\ pc = "colon2"
    /\ rv' = rv \o <<Colon, Colon>>
    /\ colon2' = TRUE
    /\ pc' = "append"
    /\ UNCHANGED <<mem, fn, arg, item, slist_node_ptr, void_data_ptr, name_ptr,
                   result, history>>

\* Lines 66-69: the separator, or the flag that asks for it from now on.
Sname_colon2 ==
    /\ pc = "colon2"
    /\ IF colon2
       THEN rv' = rv \o <<Colon, Colon>> /\ UNCHANGED colon2
       ELSE colon2' = TRUE /\ UNCHANGED rv
    /\ pc' = "append"
    /\ UNCHANGED <<mem, fn, arg, item, slist_node_ptr, void_data_ptr, name_ptr,
                   result, history>>

\* Line 70: the name's summary without its quotes; None has no strip.
Sname_append ==
    /\ pc = "append"
    /\ derefs' = derefs \cup {name_ptr}
    /\ LET summary == GetSummary(name_ptr)
       IN  IF summary = None
           THEN /\ pc' = "raised"
                /\ Finish(AttributeError)
                /\ UNCHANGED <<rv, emitted>>
           ELSE /\ pc' = "next"
                /\ rv' = rv \o strip(summary)
                /\ emitted' = Append(emitted, strip(summary))
                /\ UNCHANGED <<result, first, between>>
    /\ UNCHANGED <<mem, fn, arg, colon2, item, slist_node_ptr, void_data_ptr,
                   name_ptr, visited, passed, nullLog>>

\* Line 60, linked_list_iter resumed: the cursor moves to the node's next.
Sname_next ==
    /\ pc = "next"
    /\ item' = GetChildMemberWithName(item, "next")
    /\ derefs' = derefs \cup {item}
    /\ pc' = "for"
    /\ UNCHANGED <<mem, fn, arg, colon2, rv, slist_node_ptr, void_data_ptr,
                   name_ptr, result, visited, passed, nullLog, emitted, first,
                   between>>

\* Line 72.
Sname_return ==
    /\ pc = "return"
    /\ pc' = "returned"
    /\ Finish(<<Quote>> \o rv \o <<Quote>>)
    /\ UNCHANGED <<mem, fn, arg, locals, visited, derefs, passed, nullLog, emitted>>

\* show_c_scope_t, lines 36-42: rv, and the scope's data.
Call_scope(c_scope) ==
    /\ AtRest
    /\ fn' = "show_c_scope_t"
    /\ arg' = c_scope
    /\ rv' = <<>>
    /\ void_data_ptr' = GetChildMemberWithName(c_scope, "data")
    /\ derefs' = {c_scope}
    /\ passed' = {}
    /\ visited' = <<>>
    /\ emitted' = <<>>
    /\ nullLog' = NoLog
    /\ item' = NoValue
    /\ slist_node_ptr' = NoValue
    /\ name_ptr' = NoValue
    /\ pc' = "s_data"
    /\ result' = <<>>
    /\ UNCHANGED <<mem, colon2, first, between>>

\* Line 43.
Scope_data ==
    /\ pc = "s_data"
    /\ nullLog' = [ptr |-> void_data_ptr, ret |-> null(void_data_ptr), called |-> TRUE]
    /\ IF null(void_data_ptr)
       THEN pc' = "s_return" /\ UNCHANGED passed
       ELSE pc' = "s_name" /\ passed' = passed \cup {Ref(void_data_ptr)}
    /\ UNCHANGED <<mem, fn, arg, locals, result, visited, derefs, emitted, first,
                   between>>

\* Lines 44-46.
Scope_name ==
    /\ pc = "s_name"
    /\ LET c_scope_data_ptr == Cast(void_data_ptr, DataPtrT)
           v == GetChildMemberWithName(c_scope_data_ptr, "name")
       IN  /\ name_ptr' = v
           /\ derefs' = derefs \cup {c_scope_data_ptr}
           /\ nullLog' = [ptr |-> v, ret |-> null(v), called |-> TRUE]
           /\ IF null(v)
              THEN pc' = "s_return" /\ UNCHANGED passed
              ELSE pc' = "s_summary" /\ passed' = passed \cup {Ref(v)}
    /\ UNCHANGED <<mem, fn, arg, colon2, rv, item, slist_node_ptr, void_data_ptr,
                   result, visited, emitted, first, between>>

\* Line 47.
Scope_summary ==
    /\ pc = "s_summary"
    /\ derefs' = derefs \cup {name_ptr}
    /\ LET summary == GetSummary(name_ptr)
       IN  IF summary = None
           THEN /\ pc' = "raised"
                /\ Finish(AttributeError)
                /\ UNCHANGED rv
           ELSE /\ pc' = "s_return"
                /\ rv' = strip(summary)
                /\ UNCHANGED <<result, first, between>>
    /\ UNCHANGED <<mem, fn, arg, colon2, item, slist_node_ptr, void_data_ptr,
                   name_ptr, visited, passed, nullLog, emitted>>

\* Line 49.
Scope_return ==
    /\ pc = "s_return"
    /\ pc' = "returned"
    /\ Finish(<<Quote>> \o rv \o <<Quote>>)
    /\ UNCHANGED <<mem, fn, arg, locals, visited, derefs, passed, nullLog, emitted>>

Next ==
    \/ \E c_sname \in SnameArgs : Call_sname(c_sname)
    \/ Sname_for
    \/ Sname_data
    \/ Sname_name
    \/ Sname_colon2
    \/ Sname_append
    \/ Sname_next
    \/ Sname_return
    \/ \E c_scope \in ScopeArgs : Call_scope(c_scope)
    \/ Scope_data
    \/ Scope_name
    \/ Scope_summary
    \/ Scope_return

Spec == Init /\ [][Next]_vars

SpecIdem == InitIdem /\ [][Next]_vars

----------------------------------------------------------------------------
(* What the claims speak of, read off the debuggee's memory.               *)

Absent(v) == ~v.valid \/ v.val = 0

RECURSIVE Path(_, _)
\* The nodes from v along next, at most fuel of them.
Path(v, fuel) ==
    IF fuel = 0 \/ Absent(v) THEN <<>>
    ELSE <<v.val>> \o Path(next[v.val], fuel - 1)

\* The chain the argument of show_c_sname_t leads to.
Chain == Path(IF arg.valid THEN head ELSE InvalidValue(NodePtrT), Len(next) + 1)

Acyclic == Len(Chain) <= Len(next)

Ended == pc \in {"returned", "raised"}

InSname == fn = "show_c_sname_t"
InScope == fn = "show_c_scope_t"

Named(i) == ~Absent(data[i]) /\ ~Absent(name[i]) /\ text[i] \in Names

\* The name node i contributes: nothing when its data or its name is absent.
NameOf(i) == IF Named(i) THEN text[i] ELSE <<>>

RECURSIVE Join(_)
\* The names with one "::" between each two.
Join(names) ==
    IF names = <<>> THEN <<>>
    ELSE IF Len(names) = 1 THEN names[1]
    ELSE names[1] \o <<Colon, Colon>> \o Join(Tail(names))

Quoted(s) == <<Quote>> \o s \o <<Quote>>

NonEmpty(s) == s # <<>>

ChainNames == [k \in 1..Len(Chain) |-> NameOf(Chain[k])]

CellOf(i) == [data |-> data[i], name |-> name[i], summary |-> GetSummary(name[i])]

HasData(i) == ~Absent(data[i])

ChainWithData == SelectSeq(Chain, HasData)

----------------------------------------------------------------------------
(* The claims.                                                             *)

\* C1: on an acyclic chain whose nodes all have a data record with a
\* non-empty name, show_c_sname_t returns the names in head-to-tail order
\* with exactly one "::" between each two, inside one pair of quotes.
C1_JoinedInOrder ==
    (InSname /\ Ended /\ Acyclic
        /\ \A k \in 1..Len(Chain) : Named(Chain[k]) /\ NonEmpty(text[Chain[k]]))
    => (pc = "returned" /\ result = Quoted(Join(ChainNames)))

C1_Witness ==
    /\ InSname /\ pc = "returned" /\ Len(Chain) = 3
    /\ \A k \in 1..3 : Named(Chain[k])
    /\ result = <<Quote, "S", Colon, Colon, "T", Colon, Colon, "S", Quote>>

\* C2 (as claimed): a node whose name is absent or empty contributes
\* nothing, so the result is the "::"-join of the non-empty names alone.
C2_EmptyNamesContributeNothing ==
    (InSname /\ pc = "returned" /\ Acyclic)
    => result = Quoted(Join(SelectSeq(ChainNames, NonEmpty)))

\* C3: a node whose data is absent contributes nothing and leaves the
\* separator flag alone: the outcome is that of the chain without such
\* nodes, and "" in quotes when no node has data (an empty chain included).
C3_AbsentDataSkipped ==
    (InSname /\ Ended /\ Acyclic)
    => /\ result = show_c_sname_t([k \in 1..Len(ChainWithData) |->
                                        CellOf(ChainWithData[k])])
       /\ (ChainWithData = <<>> => pc = "returned" /\ result = <<Quote, Quote>>)

C3_Witness ==
    /\ InSname /\ pc = "returned" /\ Len(Chain) = 3
    /\ Absent(data[Chain[2]])
    /\ result = <<Quote, "S", Colon, Colon, "T", Quote>>

\* C4 (as claimed): show_c_scope_t returns the bare name, and the empty
\* string when the name, the data or the value itself is absent.
C4_ReturnsBareName ==
    (InScope /\ pc = "returned")
    => result = (IF arg.valid THEN NameOf(arg.val) ELSE <<>>)

\* C4 (amended): show_c_scope_t returns the name inside one pair of
\* quotes, and two quotes with nothing between them when the name, the
\* data or the value itself is absent.
C4_ReturnsQuotedName ==
    (InScope /\ Ended /\ (arg.valid => Absent(data[arg.val]) \/ Absent(name[arg.val])
                                          \/ Named(arg.val)))
    => /\ pc = "returned"
       /\ result = Quoted(IF arg.valid THEN NameOf(arg.val) ELSE <<>>)

C4_Witness ==
    /\ InScope /\ pc = "returned" /\ arg.valid /\ Named(arg.val)
    /\ result = <<Quote, "S", Quote>>

TopLevel(v) == v.ty \in {SnameT, ScopeT}

\* C5 (as claimed): every value a field or summary is read of, the
\* host's argument included, has passed the absent test.
C5_EveryReadGuarded == \A v \in derefs : Ref(v) \in passed

\* C5 (amended): every value a field or summary is read of, other than the
\* host's argument, has passed the absent test (null, or the iterator's
\* end-of-list test); the argument is read unguarded and the test is made
\* on what the read gives, so an invalid argument is rendered as "".
C5_ReadsBelowArgGuarded ==
    /\ \A v \in derefs : IF TopLevel(v) THEN v = arg
                         ELSE Ref(v) \in passed /\ ~Absent(v)
    /\ (Ended /\ ~arg.valid) => (pc = "returned" /\ result = <<Quote, Quote>>)

C5_Witness ==
    /\ InSname /\ pc = "returned"
    /\ \E v \in derefs : v.ty = CharPtrT
    /\ \E v \in derefs : v.ty = DataPtrT
    /\ \E v \in derefs : v.ty = NodePtrT

\* C6 (as claimed): show_c_sname_t never fails, whatever is absent or
\* without a usable value along the chain.
C6_NeverFails == InSname => pc # "raised"

\* C7 (as claimed): on an acyclic chain the traversal ends having visited
\* every node of the chain once, in head-to-tail order.
C7_VisitsWholeChain == (InSname /\ Ended /\ Acyclic) => visited = Chain

\* C8: null answers True exactly for a value that is not valid or whose
\* unsigned value is 0, and the step that calls it leaves the debuggee alone.
C8_NullGuard ==
    /\ [](nullLog.called =>
            (nullLog.ret <=> (~nullLog.ptr.valid \/ nullLog.ptr.val = 0)))
    /\ [][nullLog' # nullLog => mem' = mem]_vars

C8_Witness ==
    /\ nullLog.called /\ nullLog.ret
    /\ nullLog.ptr.valid /\ nullLog.ptr.val = 0

\* C9: a call on the value the first call was made on gives what the first
\* call gave, whatever calls came between, and no step writes the debuggee.
C9_Idempotent ==
    /\ []((Ended /\ first.fn = fn /\ first.arg = arg) => result = first.out)
    /\ [][mem' = mem]_vars

C9_Witness ==
    /\ InSname /\ pc = "returned" /\ between
    /\ first.fn = fn /\ first.arg = arg
    /\ result = <<Quote, "S", Colon, Colon, "T", Quote>>

\* C10 (as claimed): between two nodes of the traversal colon2 is true
\* exactly when a non-empty name has been appended, that is, exactly when
\* the accumulator is not empty.
C10_FlagIffNameAppended ==
    (InSname /\ pc \in {"for", "return", "returned"})
    => /\ colon2 <=> (\E k \in 1..Len(emitted) : NonEmpty(emitted[k]))
       /\ colon2 <=> NonEmpty(rv)

====
